---- MODULE Spec2Model ----
(***************************************************************************)
(* A model of the ownership primitives of kstd-types:                      *)
(*   - BasicRc (Rc / Arc), include/kstd/rc.hpp                             *)
(*   - Option,             include/kstd/option.hpp                         *)
(*   - Box,                include/kstd/box.hpp                            *)
(* Each method of the classes is one action; the heap the handles share    *)
(* (control blocks, pointees) is explicit, so that leaks, dangling         *)
(* handles and double releases are states of the model.                    *)
(***************************************************************************)
EXTENDS Integers, FiniteSets, Sequences, TLC

(***************************************************************************)
(* Bounds of the model.                                                    *)
(***************************************************************************)
NumHandles == 2
MaxBlocks == 2
MaxCount == 2
NumOpts == 2
MaxValue == 2
MaxDtor == 2
MaxCell == 1
NumBoxes == 1

Handles == 1..NumHandles
Blocks == 1..MaxBlocks
\* Every control block is made for a pointee of its own: pointee b is the
\* object whose address BasicRc(T*) stored in block b.
Pointees == Blocks

\* The null address: a handle's _inner, or a control block's value.
Null == 0

VARIABLES
    \* ---- BasicRc ----
    hLive,       \* hLive[h]: handle h is constructed and not yet destroyed
    inner,       \* inner[h]: BasicRc::_inner, a block or Null
    blockState,  \* blockState[b]: "unused", "live" or "freed" (the allocator's view)
    value,       \* value[b]: RcInner::value, a pointee or Null
    count,       \* count[b]: RcInner::count
    ptState,     \* ptState[p]: "unused", "live" or "destroyed"
    dtorRuns,    \* dtorRuns[p]: times Allocator<T>::destroy ran on pointee p
    blockFrees,  \* blockFrees[b]: times Allocator<RcInner>::destroy ran on block b
    hist,        \* hist[b]: the copy-constructions and drops block b has seen
    fault,       \* the undefined behaviour the run has committed, a set of names
    \* ---- Arc: one thread per handle, each inside drop() ----
    pc,          \* pc[h]: where the thread that owns handle h is in drop()
    \* ---- Option<T> over Box<T> ----
    kind,        \* the category of T: "value", "pointer" or "reference"
    opt,         \* opt[o]: the Option o, its Box and its presence flag
    olast,       \* the Option operation that led to this state
    \* ---- the objects Option<T*> and Option<T&> refer to ----
    build,       \* the build configuration: "debug" (BUILD_DEBUG) or "release"
    mem,         \* mem[a]: the content of the object at address a
    origin,      \* origin[o]: the present Option o was last copied from, or 0
    \* ---- Box<T> used on its own ----
    slot         \* slot[s]: the Box s, and the contents it has held before

rcVars == <<hLive, inner, blockState, value, count, ptState, dtorRuns,
            blockFrees, hist, fault>>

optVars == <<kind, opt, olast>>

accVars == <<build, mem, origin>>

vars == <<rcVars, pc, optVars, accVars, slot>>

\* What the operations of one class leave alone.
RcFrame == UNCHANGED <<pc, optVars, accVars, slot>>
ArcFrame == UNCHANGED <<optVars, accVars, slot>>
OptFrame == UNCHANGED <<rcVars, pc, kind, accVars, slot>>

(***************************************************************************)
(* The heap and the handles as one record, so that a method that calls     *)
(* another (reset calls drop, ~BasicRc calls drop) is a composition.       *)
(***************************************************************************)
Cur ==
    [hLive |-> hLive, inner |-> inner, blockState |-> blockState,
     value |-> value, count |-> count, ptState |-> ptState,
     dtorRuns |-> dtorRuns, blockFrees |-> blockFrees, hist |-> hist,
     fault |-> fault]

Apply(t) ==
    /\ hLive' = t.hLive
    /\ inner' = t.inner
    /\ blockState' = t.blockState
    /\ value' = t.value
    /\ count' = t.count
    /\ ptState' = t.ptState
    /\ dtorRuns' = t.dtorRuns
    /\ blockFrees' = t.blockFrees
    /\ hist' = t.hist
    /\ fault' = t.fault

CleanHist == [clean |-> TRUE, copies |-> 0, drops |-> 0]
DirtyHist == [clean |-> FALSE, copies |-> 0, drops |-> 0]

\* A block is taken out of the copy/drop-only history by any other operation.
Dirty(s, b) ==
    IF b = Null THEN s ELSE [s EXCEPT !.hist[b] = DirtyHist]

Fault(s, name) == [s EXCEPT !.fault = @ \cup {name}]

\* Every access to a control block goes through here: a freed block is a
\* use after free, the null address a null dereference.
Touch(s, b) ==
    IF b = Null THEN Fault(s, "null_deref")
    ELSE IF s.blockState[b] # "live" THEN Fault(s, "use_after_free")
    ELSE s

\* What a read of b's count can return: the stored count of a live block,
\* anything at all once the block is freed.
ReadCount(s, b) ==
    IF b # Null /\ s.blockState[b] = "live" THEN {s.count[b]} ELSE 0..MaxCount

(***************************************************************************)
(* The allocator capability (allocator.hpp): construct and destroy.        *)
(***************************************************************************)
UnusedBlocks(s) == {b \in Blocks : s.blockState[b] = "unused"}

\* The allocator hands out addresses it has never handed out before.
NewBlock(s) == CHOOSE b \in UnusedBlocks(s) : \A c \in UnusedBlocks(s) : b <= c

\* ALLOCATOR<InnerType>().construct(): RcInner() zeroes value and count.
ConstructInner(s, b) ==
    [s EXCEPT !.blockState[b] = "live", !.value[b] = Null, !.count[b] = 0]

\* ALLOCATOR<T>().construct(args...): a new pointee.
ConstructValue(s, p) ==
    IF p = Null THEN s ELSE [s EXCEPT !.ptState[p] = "live"]

\* Allocator().destroy(_inner->value): runs ~T and frees; destroying a
\* pointee again is a double free.
DestroyValue(s, p) ==
    IF p = Null THEN s
    ELSE LET t == [s EXCEPT !.ptState[p] = "destroyed",
                            !.dtorRuns[p] = @ + 1]
         IN IF s.ptState[p] = "destroyed" THEN Fault(t, "double_free") ELSE t

\* ALLOCATOR<InnerType>().destroy(_inner).
DestroyInner(s, b) ==
    LET t == [s EXCEPT !.blockState[b] = "freed", !.blockFrees[b] = @ + 1]
    IN IF s.blockState[b] = "freed" THEN Fault(t, "double_free") ELSE t

(***************************************************************************)
(* BasicRc's methods as functions of the heap.                             *)
(***************************************************************************)
\* A drop() that leaves _inner as it is.
DropOp_KeepsPointer(s, h, c) ==
    IF s.inner[h] = Null THEN s
    ELSE LET b == s.inner[h]
             s0 == Touch(s, b)
             s1 == IF c > 0
                   THEN [s0 EXCEPT !.count[b] = c - 1]
                   ELSE DestroyInner(DestroyValue(s0, s0.value[b]), b)
         IN IF s1.hist[b].clean
            THEN [s1 EXCEPT !.hist[b].drops = @ + 1]
            ELSE s1

\* drop(), rc.hpp:79-91; c is what the read of _inner->count returned.
DropOp(s, h, c) ==
    IF s.inner[h] = Null THEN s
    ELSE LET b == s.inner[h]
             s0 == Touch(s, b)
             s1 == IF c > 0
                   THEN [s0 EXCEPT !.count[b] = c - 1]
                   ELSE DestroyInner(DestroyValue(s0, s0.value[b]), b)
             s2 == IF s1.hist[b].clean
                   THEN [s1 EXCEPT !.hist[b].drops = @ + 1]
                   ELSE s1
         IN [s2 EXCEPT !.inner[h] = Null]

\* BasicRc(T* value), rc.hpp:59-63, on the new block b.
ConstructOp(s, h, p, b) ==
    LET s0 == ConstructInner(s, b)
    IN [s0 EXCEPT !.hLive[h] = TRUE, !.inner[h] = b,
                  !.value[b] = p, !.count[b] = 1, !.hist[b] = CleanHist]

\* A copy constructor that attaches and leaves the count as it is.
CopyConstructOp_NoIncrement(s, h, src) ==
    LET b == s.inner[src]
        s0 == Touch(s, b)
        s1 == IF b = Null THEN s0
              ELSE [s0 EXCEPT !.hist[b] = IF @.clean /\ @.drops = 0
                                          THEN [@ EXCEPT !.copies = @ + 1]
                                          ELSE DirtyHist]
    IN [s1 EXCEPT !.hLive[h] = TRUE, !.inner[h] = b]

\* BasicRc(const Self&), rc.hpp:65-68: ++_inner->count with no null test.
CopyConstructOp(s, h, src) ==
    LET b == s.inner[src]
        s0 == Touch(s, b)
        s1 == IF b = Null THEN s0
              ELSE [s0 EXCEPT !.count[b] = @ + 1,
                              !.hist[b] = IF @.clean /\ @.drops = 0
                                          THEN [@ EXCEPT !.copies = @ + 1]
                                          ELSE DirtyHist]
    IN [s1 EXCEPT !.hLive[h] = TRUE, !.inner[h] = b]

\* A move constructor that counts the destination as a new owner.
MoveConstructOp_Counts(s, h, src) ==
    LET b == s.inner[src]
        s0 == Dirty(s, b)
        s1 == IF b = Null THEN s0 ELSE [s0 EXCEPT !.count[b] = @ + 1]
    IN [s1 EXCEPT !.hLive[h] = TRUE, !.inner[h] = b]

\* BasicRc(Self&&), rc.hpp:70-73: the source keeps its _inner.
MoveConstructOp(s, h, src) ==
    LET s0 == Dirty(s, s.inner[src])
    IN [s0 EXCEPT !.hLive[h] = TRUE, !.inner[h] = s.inner[src]]

\* A reset() that leaves the count RcInner() starts with.
ResetOp_NoCount(s, h, p, b, c) ==
    LET s0 == DropOp(Dirty(s, s.inner[h]), h, c)
        s1 == IF s0.inner[h] = Null
              THEN [ConstructInner(s0, b) EXCEPT !.inner[h] = b,
                                                 !.hist[b] = DirtyHist]
              ELSE s0
        nb == s1.inner[h]
    IN [s1 EXCEPT !.value[nb] = p]

\* reset(T*), rc.hpp:93-102, allocating block b if _inner is null after drop().
ResetOp(s, h, p, b, c) ==
    LET s0 == DropOp(Dirty(s, s.inner[h]), h, c)
        s1 == IF s0.inner[h] = Null
              THEN [ConstructInner(s0, b) EXCEPT !.inner[h] = b,
                                                 !.hist[b] = DirtyHist]
              ELSE s0
        nb == s1.inner[h]
    IN [s1 EXCEPT !.value[nb] = p, !.count[nb] = 1]

\* operator=(const Self&), rc.hpp:104-116.
CopyAssignOp(s, h, src) ==
    IF h = src THEN s
    ELSE LET b == s.inner[src]
             s0 == Dirty(Dirty(s, s.inner[h]), b)
             s1 == [s0 EXCEPT !.inner[h] = b]
         IN IF b = Null THEN s1
            ELSE [Touch(s1, b) EXCEPT !.count[b] = @ + 1]

\* operator=(Self&&), rc.hpp:118-121.
MoveAssignOp(s, h, src) ==
    LET s0 == Dirty(Dirty(s, s.inner[h]), s.inner[src])
    IN [s0 EXCEPT !.inner[h] = s.inner[src]]

(***************************************************************************)
(* Observers.                                                              *)
(***************************************************************************)
\* get_count(), rc.hpp:127-133.
get_count(h) == IF inner[h] = Null THEN 0 ELSE count[inner[h]]

\* has_value(), rc.hpp:123-125.
has_value(h) == inner[h] # Null /\ value[inner[h]] # Null

\* A has_value() that asks for a control block only.
has_value_in_AnyBlock(s, h) == s.inner[h] # Null

\* get_count() and has_value() in the heap s an operation has made.
get_count_in(s, h) == IF s.inner[h] = Null THEN 0 ELSE s.count[s.inner[h]]
has_value_in(s, h) == s.inner[h] # Null /\ s.value[s.inner[h]] # Null

\* operator==(nullptr), rc.hpp:163-165.
eq_nullptr(s, h) == ~has_value_in(s, h)

\* operator!=(nullptr), rc.hpp:167-169.
ne_nullptr(s, h) == has_value_in(s, h)

\* The live handles whose _inner is block b.
Attached(b) == {h \in Handles : hLive[h] /\ inner[h] = b}

(***************************************************************************)
(* Box<T>, box.hpp.  T's category selects the specialization: a value is   *)
(* stored, a pointer is stored as it is, of a reference the address of the *)
(* referent is stored.  A stored value is a number 0..MaxValue, 0 being    *)
(* T(); an address is a number too, 0 being nullptr, and the object at     *)
(* address a is named a.  dtor counts the runs of ~T on the content that   *)
(* Box::_value holds now, up to MaxDtor (MaxDtor standing for more): an    *)
(* assignment installs new content, on which ~T has not run.               *)
(***************************************************************************)
Opts == 1..NumOpts
Kinds == {"value", "pointer", "reference"}

\* The objects a T* or a T& can refer to, and what such an object can hold.
Addrs == 1..MaxValue
Cells == 0..MaxCell

\* The build configurations: BUILD_DEBUG defined, or not.
Builds == {"debug", "release"}

\* The arguments make_value can be given: any T, any pointer, nullptr
\* too, or a reference to an object.
Values(k) == IF k = "reference" THEN 1..MaxValue ELSE 0..MaxValue

\* Box(), box.hpp:70-72, 150-152, 232-234.
BoxDefault(k) == [value |-> 0, dtor |-> 0]

\* Box(ValueType), box.hpp:74-76, 154-156, 236-242.
BoxOf(k, v) == [value |-> v, dtor |-> 0]

\* ~ValueType() on _value once more.
RunDtor(box) == [box EXCEPT !.dtor = IF @ < MaxDtor THEN @ + 1 ELSE @]

\* A drop() that runs a destructor whatever T is.
BoxDrop_Always(k, box) == RunDtor(box)

\* drop(), box.hpp:84-85, 164-165, 256-260.
BoxDrop(k, box) == IF k = "value" THEN RunDtor(box) ELSE box

\* ~Box(), box.hpp:82, 162, 252-254: the value specialization calls drop()
\* and then, as every destructor does, destroys the member _value.
BoxDestructor(k, box) == IF k = "value" THEN RunDtor(BoxDrop(k, box)) ELSE box

\* borrow(), box.hpp:87-93, 167-173, 262-268.
BoxBorrow(k, box) == box.value

\* get(), box.hpp:95-97, 175-177, 270-272.
BoxGet(k, box) == box.value

\* What operator=(ValueType) makes of the content it replaces: the value
\* specialization calls drop() on it, box.hpp:287.
BoxReplaced(k, box) == BoxDrop(k, box)

\* An operator=(ValueType) that releases the content and installs nothing.
BoxAssign_KeepsValue(k, box, v) == [BoxReplaced(k, box) EXCEPT !.dtor = 0]

\* operator=(ValueType), box.hpp:103-106, 183-186, 286-290: the content
\* held before is gone, the new content is installed.
BoxAssign(k, box, v) == [BoxReplaced(k, box) EXCEPT !.value = v, !.dtor = 0]

\* The Boxes the program uses on their own.  installed is the argument
\* the Box was last given, by its constructor or by an assignment; retired
\* holds, for each content the Box held and holds no more, the times ~T
\* ran on it; written tells of the last write made, since the Box was
\* given its content, to the object the Box refers to: what was written,
\* if it was written through this Box.
Slots == 1..NumOpts
\* The Boxes of the programs that look at one Box at a time.
Boxes == 1..NumBoxes
NoWrite == -1
OutsideWrite == -2
NoSlot ==
    [live |-> FALSE, box |-> BoxDefault("value"), installed |-> 0,
     retired |-> {}, written |-> NoWrite]

(***************************************************************************)
(* Option<T>, option.hpp: a Box and the flag _is_present.                  *)
(***************************************************************************)
NoOption == [live |-> FALSE, is_present |-> FALSE, inner |-> BoxDefault("value")]

\* Option(), option.hpp:51-54.
OptionEmpty(k) == [live |-> TRUE, is_present |-> FALSE, inner |-> BoxDefault(k)]

\* A constructor that takes the value and leaves the flag unset.
OptionOf_NotPresent(k, v) ==
    [live |-> TRUE, is_present |-> FALSE, inner |-> BoxOf(k, v)]

\* Option(ValueType), option.hpp:56-59.
OptionOf(k, v) == [live |-> TRUE, is_present |-> TRUE, inner |-> BoxOf(k, v)]

\* drop(), option.hpp:87-90.
OptionDrop(k, o) ==
    [o EXCEPT !.inner = BoxDestructor(k, @), !.is_present = FALSE]

\* reset(), option.hpp:83-85.
OptionReset(k, o) == [o EXCEPT !.is_present = FALSE]

\* Option(const Self&), option.hpp:61-68: drop() clears the flag the
\* initializer list has just copied.
OptionCopy(k, other) ==
    LET o0 == [live |-> TRUE, is_present |-> other.is_present,
               inner |-> BoxDefault(k)]
    IN IF other.is_present
       THEN LET o1 == OptionDrop(k, o0)
            IN [o1 EXCEPT !.inner = BoxAssign(k, @, BoxBorrow(k, other.inner))]
       ELSE o0

\* Option(Self&&), option.hpp:70-77.
OptionMove(k, other) ==
    LET o0 == [live |-> TRUE, is_present |-> other.is_present,
               inner |-> BoxDefault(k)]
    IN IF other.is_present
       THEN LET o1 == OptionDrop(k, o0)
            IN [o1 EXCEPT !.inner = BoxAssign(k, @, BoxGet(k, other.inner))]
       ELSE o0

\* An operator=(const Self&) that marks the Option present and leaves the
\* source's content behind.
OptionCopyAssign_NoContent(k, o, other) ==
    IF other.is_present
    THEN [OptionDrop(k, o) EXCEPT !.is_present = TRUE]
    ELSE o

\* operator=(const Self&), option.hpp:92-104, for this # &other.
OptionCopyAssign(k, o, other) ==
    IF other.is_present
    THEN LET o1 == OptionDrop(k, o)
         IN [o1 EXCEPT !.inner = BoxAssign(k, @, BoxBorrow(k, other.inner)),
                       !.is_present = TRUE]
    ELSE o

\* An operator=(Self&&) that forgets to set _is_present.
OptionMoveAssign_NoFlag(k, o, other) ==
    IF other.is_present
    THEN LET o1 == OptionDrop(k, o)
         IN [o1 EXCEPT !.inner = BoxAssign(k, @, BoxGet(k, other.inner))]
    ELSE o

\* operator=(Self&&), option.hpp:106-114.
OptionMoveAssign(k, o, other) ==
    IF other.is_present
    THEN LET o1 == OptionDrop(k, o)
         IN [o1 EXCEPT !.inner = BoxAssign(k, @, BoxGet(k, other.inner)),
                       !.is_present = TRUE]
    ELSE o

\* The Box of o, still holding the content an assignment to o replaces,
\* when the new value is stored: operator= has called drop(), and the
\* Box's operator=(ValueType) has released the content,
\* option.hpp:98-99, 110-111.
OptionReplaced(k, o) == BoxReplaced(k, OptionDrop(k, o).inner)

\* ~Option(), option.hpp:79-81: drop(), then the member _inner is destroyed.
OptionDestructor(k, o) ==
    [OptionDrop(k, o) EXCEPT !.inner = BoxDestructor(k, @), !.live = FALSE]

\* What get() leaves in the Box it took the value from: a T that was moved
\* from keeps its value (an integer) or is left as T() (a string); pointers
\* and references are copied.
MovedFrom(k, box) ==
    IF k = "value" THEN {box, [box EXCEPT !.value = 0]} ELSE {box}

\* has_value(), option.hpp:120-122.
opt_has_value(o) == o.is_present

\* is_empty(), option.hpp:116-118.
is_empty(o) == ~o.is_present

\* borrow_value(), option.hpp:124-132, on a present Option.
borrow_value(k, o) == BoxBorrow(k, o.inner)

\* get_value(), option.hpp:144-152, past its check.
get_value(k, o) == BoxGet(k, o.inner)

\* A build whose accessors never check.
NoValue_Unchecked(b, o) == FALSE

\* The test the accessors open with, option.hpp:125-129, 145-149: in a
\* BUILD_DEBUG build an empty Option throws std::runtime_error, and out of
\* a noexcept function the exception ends the program.
NoValue(b, o) == b = "debug" /\ is_empty(o)

\* What an accessor that got past the test hands back: the stored value,
\* the stored pointer, or the object a stored address refers to; binding a
\* reference to *nullptr is undefined and names any object or none.
Returned(k, v) == IF k = "reference" /\ v = 0 THEN 0..MaxValue ELSE {v}

\* The content of the object *opt designates (**opt for a T*): the Box's
\* own _value for a value, the target of the stored address otherwise.
Deref(k, o, m) ==
    IF k = "value" THEN o.inner.value
    ELSE IF o.inner.value \in Addrs THEN m[o.inner.value] ELSE -1

\* A store in which Options that hold equal values share one storage.
Stored_Shared(os, o, v) ==
    [q \in Opts |-> IF os[q].inner.value = os[o].inner.value
                    THEN [os[q] EXCEPT !.inner.value = v] ELSE os[q]]

\* *opt = v for a value T: borrow_value() returns a reference to this
\* Option's Box::_value, option.hpp:131, box.hpp:262-264.
Stored(os, o, v) == [os EXCEPT ![o].inner.value = v]

\* What an operation found: the flag and the Box of its target and of its
\* source (of an operation with no source, those of no Option).
Before(o) == [is_present |-> o.is_present, inner |-> o.inner]

NoOptOp ==
    [op |-> "init", dst |-> 0, src |-> 0, arg |-> 0, raised |-> FALSE,
     dstBefore |-> Before(NoOption), srcBefore |-> Before(NoOption)]

\* arg is the argument of the operation, or the value an accessor returned;
\* raised tells that the operation ended in the no-value failure.
OptDid(op, dst, src, arg) ==
    [op |-> op, dst |-> dst, src |-> src, arg |-> arg, raised |-> FALSE,
     dstBefore |-> IF src \in Opts THEN Before(opt[dst]) ELSE Before(NoOption),
     srcBefore |-> IF src \in Opts THEN Before(opt[src]) ELSE Before(NoOption)]

(***************************************************************************)
(* Init: no handle constructed, nothing allocated.                         *)
(***************************************************************************)
RcInit ==
    /\ hLive = [h \in Handles |-> FALSE]
    /\ inner = [h \in Handles |-> Null]
    /\ blockState = [b \in Blocks |-> "unused"]
    /\ value = [b \in Blocks |-> Null]
    /\ count = [b \in Blocks |-> 0]
    /\ ptState = [p \in Pointees |-> "unused"]
    /\ dtorRuns = [p \in Pointees |-> 0]
    /\ blockFrees = [b \in Blocks |-> 0]
    /\ hist = [b \in Blocks |-> DirtyHist]
    /\ fault = {}
    /\ pc = [h \in Handles |-> "seq"]

\* A run that has committed undefined behaviour is over.
Running == fault = {}

\* The count of the block the source is attached to can still be raised.
CanIncrement(src) ==
    IF inner[src] = Null THEN TRUE ELSE count[inner[src]] < MaxCount

(***************************************************************************)
(* The actions: one per constructor, method and destructor of BasicRc.     *)
(***************************************************************************)
\* BasicRc(): a handle with no control block.
DefaultConstruct(h) ==
    /\ Running /\ ~hLive[h]
    /\ Apply([Cur EXCEPT !.hLive[h] = TRUE, !.inner[h] = Null])
    /\ RcFrame

\* BasicRc(T*) over a new pointee (make_rc) or over nullptr.
Construct(h) ==
    /\ Running /\ ~hLive[h]
    /\ \E b \in UnusedBlocks(Cur), p \in Pointees \cup {Null} :
          /\ b = NewBlock(Cur)
          /\ p \in {Null, b}
          /\ Apply(ConstructOp(ConstructValue(Cur, p), h, p, b))
    /\ RcFrame

CopyConstruct(h, src) ==
    /\ Running /\ ~hLive[h] /\ hLive[src] /\ CanIncrement(src)
    /\ Apply(CopyConstructOp(Cur, h, src))
    /\ RcFrame

MoveConstruct(h, src) ==
    /\ Running /\ ~hLive[h] /\ hLive[src]
    /\ Apply(MoveConstructOp(Cur, h, src))
    /\ RcFrame

Drop(h) ==
    /\ Running /\ hLive[h]
    /\ \E c \in ReadCount(Cur, inner[h]) : Apply(DropOp(Cur, h, c))
    /\ RcFrame

\* ~BasicRc(), rc.hpp:75-77.
Destroy(h) ==
    /\ Running /\ hLive[h]
    /\ \E c \in ReadCount(Cur, inner[h]) :
          Apply([DropOp(Cur, h, c) EXCEPT !.hLive[h] = FALSE])
    /\ RcFrame

Reset(h) ==
    /\ Running /\ hLive[h]
    /\ \E b \in UnusedBlocks(Cur), p \in Pointees \cup {Null},
          c \in ReadCount(Cur, inner[h]) :
          /\ b = NewBlock(Cur)
          /\ p \in {Null, b}
          /\ Apply(ResetOp(ConstructValue(Cur, p), h, p, b, c))
    /\ RcFrame

CopyAssign(h, src) ==
    /\ Running /\ hLive[h] /\ hLive[src] /\ (h # src => CanIncrement(src))
    /\ Apply(CopyAssignOp(Cur, h, src))
    /\ RcFrame

MoveAssign(h, src) ==
    /\ Running /\ hLive[h] /\ hLive[src]
    /\ Apply(MoveAssignOp(Cur, h, src))
    /\ RcFrame

RcNext ==
    \/ \E h \in Handles : DefaultConstruct(h)
    \/ \E h \in Handles : Construct(h)
    \/ \E h, src \in Handles : CopyConstruct(h, src)
    \/ \E h, src \in Handles : MoveConstruct(h, src)
    \/ \E h \in Handles : Drop(h)
    \/ \E h \in Handles : Destroy(h)
    \/ \E h \in Handles : Reset(h)
    \/ \E h, src \in Handles : CopyAssign(h, src)
    \/ \E h, src \in Handles : MoveAssign(h, src)

\* No Option and no Box is constructed.
OptIdle ==
    /\ opt = [o \in Opts |-> NoOption]
    /\ olast = NoOptOp
    /\ mem = [a \in Addrs |-> 0]
    /\ origin = [o \in Opts |-> 0]
    /\ slot = [s \in Slots |-> NoSlot]

\* The program has no Option and no Box.
NoOptions ==
    /\ opt = <<>>
    /\ olast = NoOptOp
    /\ mem = <<>>
    /\ origin = <<>>
    /\ slot = <<>>

Init == RcInit /\ kind = "value" /\ build = "release" /\ NoOptions

\* Rc: every operation is one step of a single thread.
Next == RcNext

Spec == Init /\ [][Next]_vars

(***************************************************************************)
(* Arc = BasicRc<T, Atomic<usize>>, rc.hpp:175-176.  The handles are made  *)
(* by one thread; then every live handle is given to a thread of its own,  *)
(* and the threads run drop() concurrently.  Each access to the atomic     *)
(* counter is one step: drop() reads it in `_inner->count > 0`             *)
(* (rc.hpp:81) and writes it in `--_inner->count` (rc.hpp:82).             *)
(***************************************************************************)
\* usize arithmetic wraps.  usize is 64 bits wide; the model's integers are
\* not, so the model's usize wraps at this value instead: only the fact of
\* the wrap is looked at.
UsizeMod == 2147483647

\* --count on an Atomic<usize>.
AtomicDecrement(c) == (c - 1) % UsizeMod

Sequential == \A h \in Handles : pc[h] = "seq"

ArcSetup ==
    /\ Sequential
    /\ \/ \E h \in Handles : Construct(h)
       \/ \E h, src \in Handles : CopyConstruct(h, src)
       \/ \E h, src \in Handles : MoveConstruct(h, src)

\* The handles go to their threads, and every thread calls drop().
ArcSpawn ==
    /\ Sequential /\ Running
    /\ \E h \in Handles : hLive[h]
    /\ pc' = [h \in Handles |-> IF hLive[h] THEN "start" ELSE "done"]
    /\ ArcFrame
    /\ UNCHANGED rcVars

\* rc.hpp:80-81: `_inner != nullptr`, then the load in `_inner->count > 0`.
ArcTest(h) ==
    /\ Running /\ pc[h] = "start"
    /\ IF inner[h] = Null
       THEN /\ pc' = [pc EXCEPT ![h] = "done"]
            /\ Apply(Cur)
       ELSE \E c \in ReadCount(Cur, inner[h]) :
               /\ pc' = [pc EXCEPT ![h] = IF c > 0 THEN "dec" ELSE "destroy"]
               /\ Apply(Touch(Cur, inner[h]))
    /\ ArcFrame

\* rc.hpp:82 and 89: `--_inner->count`, a second access to the counter, then
\* `_inner = nullptr` on the thread's own handle.
ArcDecrement(h) ==
    /\ Running /\ pc[h] = "dec"
    /\ LET b == inner[h]
           s0 == Touch(Cur, b)
       IN Apply([s0 EXCEPT !.count[b] = AtomicDecrement(@),
                           !.inner[h] = Null])
    /\ pc' = [pc EXCEPT ![h] = "done"]
    /\ ArcFrame

\* rc.hpp:85-86 and 89: the branch of the thread that read a count of 0.
ArcDestroy(h) ==
    /\ Running /\ pc[h] = "destroy"
    /\ LET b == inner[h]
           s0 == Touch(Cur, b)
       IN Apply([DestroyInner(DestroyValue(s0, s0.value[b]), b)
                    EXCEPT !.inner[h] = Null])
    /\ pc' = [pc EXCEPT ![h] = "done"]
    /\ ArcFrame

ArcNext ==
    \/ ArcSetup
    \/ ArcSpawn
    \/ \E h \in Handles : ArcTest(h)
    \/ \E h \in Handles : ArcDecrement(h)
    \/ \E h \in Handles : ArcDestroy(h)

SpecArc == Init /\ [][ArcNext]_vars

(***************************************************************************)
(* The actions of Option: its factories, constructors, methods and         *)
(* destructor.                                                             *)
(***************************************************************************)
\* make_empty<T>(), option.hpp:167-171.
make_empty(o) ==
    /\ ~opt[o].live
    /\ opt' = [opt EXCEPT ![o] = OptionEmpty(kind)]
    /\ olast' = OptDid("make_empty", o, 0, 0)
    /\ OptFrame

\* make_value<T>(value), option.hpp:173-177.
make_value(o, v) ==
    /\ ~opt[o].live
    /\ opt' = [opt EXCEPT ![o] = OptionOf(kind, v)]
    /\ olast' = OptDid("make_value", o, 0, v)
    /\ OptFrame

OptCopyConstruct(o, src) ==
    /\ ~opt[o].live /\ opt[src].live
    /\ opt' = [opt EXCEPT ![o] = OptionCopy(kind, opt[src])]
    /\ olast' = OptDid("copy_construct", o, src, 0)
    /\ OptFrame

OptMoveConstruct(o, src) ==
    /\ ~opt[o].live /\ opt[src].live
    /\ \E left \in (IF opt[src].is_present
                    THEN MovedFrom(kind, opt[src].inner)
                    ELSE {opt[src].inner}) :
          opt' = [opt EXCEPT ![o] = OptionMove(kind, opt[src]),
                             ![src].inner = left]
    /\ olast' = OptDid("move_construct", o, src, 0)
    /\ OptFrame

OptCopyAssign(o, src) ==
    /\ opt[o].live /\ opt[src].live
    /\ opt' = [opt EXCEPT ![o] = IF o = src THEN @
                                 ELSE OptionCopyAssign(kind, @, opt[src])]
    /\ olast' = OptDid("copy_assign", o, src, 0)
    /\ OptFrame

OptMoveAssign(o, src) ==
    /\ opt[o].live /\ opt[src].live
    /\ \E left \in (IF opt[src].is_present /\ o # src
                    THEN MovedFrom(kind, opt[src].inner)
                    ELSE {opt[src].inner}) :
          opt' = IF o = src
                 THEN [opt EXCEPT ![o] = OptionMoveAssign(kind, @, @)]
                 ELSE [opt EXCEPT ![o] = OptionMoveAssign(kind, @, opt[src]),
                                  ![src].inner = left]
    /\ olast' = OptDid("move_assign", o, src, 0)
    /\ OptFrame

\* opt = make_value<T>(v), option.hpp:106-114 and 173-177: the temporary
\* make_value returns is moved into opt and destroyed with the statement.
OptAssignValue(o, v) ==
    /\ opt[o].live
    /\ opt' = [opt EXCEPT ![o] = OptionMoveAssign(kind, @, OptionOf(kind, v))]
    /\ olast' = OptDid("assign_value", o, o, v)
    /\ OptFrame

OptReset(o) ==
    /\ opt[o].live
    /\ opt' = [opt EXCEPT ![o] = OptionReset(kind, @)]
    /\ olast' = OptDid("reset", o, o, 0)
    /\ OptFrame

OptDrop(o) ==
    /\ opt[o].live
    /\ opt' = [opt EXCEPT ![o] = OptionDrop(kind, @)]
    /\ olast' = OptDid("drop", o, o, 0)
    /\ OptFrame

OptDestroy(o) ==
    /\ opt[o].live
    /\ opt' = [opt EXCEPT ![o] = OptionDestructor(kind, @)]
    /\ olast' = OptDid("destroy", o, 0, 0)
    /\ OptFrame

OptNext ==
    \/ \E o \in Opts : make_empty(o)
    \/ \E o \in Opts, v \in Values(kind) : make_value(o, v)
    \/ \E o, src \in Opts : OptCopyConstruct(o, src)
    \/ \E o, src \in Opts : OptMoveConstruct(o, src)
    \/ \E o, src \in Opts : OptCopyAssign(o, src)
    \/ \E o, src \in Opts : OptMoveAssign(o, src)
    \/ \E o \in Opts : OptReset(o)
    \/ \E o \in Opts : OptDrop(o)
    \/ \E o \in Opts : OptDestroy(o)

\* T is any of the three categories.
OptInit == RcInit /\ kind \in Kinds /\ build = "release" /\ OptIdle

SpecOption == OptInit /\ [][OptNext]_vars

\* The life of an Option that is emptied and filled again.
CycleNext ==
    \/ \E o \in Opts : make_empty(o)
    \/ \E o \in Opts, v \in Values(kind) : make_value(o, v)
    \/ \E o \in Opts, v \in Values(kind) : OptAssignValue(o, v)
    \/ \E o \in Opts : OptReset(o)
    \/ \E o \in Opts : OptDrop(o)
    \/ \E o \in Opts : OptDestroy(o)

SpecCycle == OptInit /\ [][CycleNext]_vars

(***************************************************************************)
(* The accessors of Option, and writes made through them.  The copies are  *)
(* tracked here: origin[o] is the Option that o was last copied from while *)
(* that one was present.                                                   *)
(***************************************************************************)
AccessFrame == UNCHANGED <<rcVars, pc, kind, build, slot>>

\* o takes a new value from src: o is a copy of src, and no longer the
\* original of the copies made of it.
CopiedFrom(o, src) ==
    [q \in Opts |-> IF q = o THEN src
                    ELSE IF origin[q] = o THEN 0 ELSE origin[q]]

\* Option(const Self&), option.hpp:61-68.
CopyConstructFrom(o, src) ==
    /\ ~opt[o].live /\ opt[src].live
    /\ opt' = [opt EXCEPT ![o] = OptionCopy(kind, opt[src])]
    /\ olast' = OptDid("copy_construct", o, src, 0)
    /\ origin' = IF opt[src].is_present THEN CopiedFrom(o, src) ELSE origin
    /\ UNCHANGED mem
    /\ AccessFrame

\* operator=(const Self&), option.hpp:92-104.
CopyAssignFrom(o, src) ==
    /\ opt[o].live /\ opt[src].live /\ o # src
    /\ opt' = [opt EXCEPT ![o] = OptionCopyAssign(kind, @, opt[src])]
    /\ olast' = OptDid("copy_assign", o, src, 0)
    /\ origin' = IF opt[src].is_present THEN CopiedFrom(o, src) ELSE origin
    /\ UNCHANGED mem
    /\ AccessFrame

\* An accessor called on o raises, or returns one of rets.
Accessed(fn, o, rets) ==
    IF NoValue(build, opt[o])
    THEN olast' = [OptDid(fn, o, o, 0) EXCEPT !.raised = TRUE]
    ELSE \E r \in rets : olast' = OptDid(fn, o, o, r)

\* borrow_value(), option.hpp:124-142.
OptBorrowValue(o) ==
    /\ opt[o].live
    /\ Accessed("borrow_value", o, Returned(kind, borrow_value(kind, opt[o])))
    /\ UNCHANGED <<opt, mem, origin>>
    /\ AccessFrame

\* get_value(), option.hpp:144-152.
OptGetValue(o) ==
    /\ opt[o].live
    /\ Accessed("get_value", o, Returned(kind, get_value(kind, opt[o])))
    /\ UNCHANGED <<opt, mem, origin>>
    /\ AccessFrame

\* operator*(), option.hpp:158-160: borrow_value().
OptDeref(o) ==
    /\ opt[o].live
    /\ Accessed("operator*", o, Returned(kind, borrow_value(kind, opt[o])))
    /\ UNCHANGED <<opt, mem, origin>>
    /\ AccessFrame

\* What can be written: a T, or the content of the object referred to.
Written(k) == IF k = "value" THEN Values(k) ELSE Cells

\* *opt = v (**opt = v for a T*), option.hpp:158-160: operator* raises as
\* borrow_value() does; past it the value the Box holds is assigned, or
\* the object the stored address refers to.  The write is made where the
\* stored address refers to an object.
OptWrite(o, v) ==
    /\ opt[o].live
    /\ IF NoValue(build, opt[o])
       THEN /\ olast' = [OptDid("write", o, o, v) EXCEPT !.raised = TRUE]
            /\ UNCHANGED <<opt, mem>>
       ELSE /\ olast' = OptDid("write", o, o, v)
            /\ IF kind = "value"
               THEN /\ opt' = Stored(opt, o, v)
                    /\ UNCHANGED mem
               ELSE /\ opt[o].inner.value \in Addrs
                    /\ mem' = [mem EXCEPT ![opt[o].inner.value] = v]
                    /\ UNCHANGED opt
    /\ UNCHANGED origin
    /\ AccessFrame

\* Options are made, copied and unwrapped.
AccessNext ==
    \/ \E o \in Opts : make_empty(o)
    \/ \E o \in Opts, v \in Values(kind) : make_value(o, v)
    \/ \E o, src \in Opts : OptCopyConstruct(o, src)
    \/ \E o, src \in Opts : OptCopyAssign(o, src)
    \/ \E o \in Opts : OptBorrowValue(o)
    \/ \E o \in Opts : OptGetValue(o)
    \/ \E o \in Opts : OptDeref(o)

\* T is any of the three categories, the build any of the two.
AccessInit == RcInit /\ kind \in Kinds /\ build \in Builds /\ OptIdle

SpecAccess == AccessInit /\ [][AccessNext]_vars

\* Options are made, copied and written through.
AliasNext ==
    \/ \E o \in Opts : make_empty(o)
    \/ \E o \in Opts, v \in Values(kind) : make_value(o, v)
    \/ \E o, src \in Opts : CopyConstructFrom(o, src)
    \/ \E o, src \in Opts : CopyAssignFrom(o, src)
    \/ \E o \in Opts, v \in Written(kind) : OptWrite(o, v)

SpecAlias == AccessInit /\ [][AliasNext]_vars

(***************************************************************************)
(* Box<T> on its own: construction, assignment, drop() and destruction of  *)
(* a slot.                                                                 *)
(***************************************************************************)
BoxFrame == UNCHANGED <<rcVars, pc, optVars, accVars>>

\* operator*(), box.hpp:108-114, 188-194, 292-298: the stored value, the
\* stored pointer, or the object the stored address refers to.
BoxStar(k, box) == Returned(k, BoxBorrow(k, box))

\* What is read through the Box, by *b (by **b for a T*), in the memory m.
BoxContent(k, box, m) == Deref(k, [inner |-> box], m)

\* A write through *b that is made to a copy the Box keeps of the object.
BoxStore_ToCopy(k, box, m, c) == m

\* *b = c for a T& (**b = c for a T*), box.hpp:188-190, 108-110: the
\* assignment is made to the object the stored address refers to.
BoxStore(k, box, m, c) == [m EXCEPT ![box.value] = c]

\* Box(ValueType), box.hpp:74-76, 154-156, 236-242.
BoxConstruct(s, v) ==
    /\ ~slot[s].live
    /\ slot' = [slot EXCEPT ![s] = [live |-> TRUE, box |-> BoxOf(kind, v),
                                   installed |-> v, retired |-> {},
                                   written |-> NoWrite]]
    /\ BoxFrame

\* operator=(ValueType), box.hpp:103-106, 183-186, 286-290.
BoxAssignValue(s, v) ==
    /\ slot[s].live
    /\ slot' = [slot EXCEPT
                  ![s].box = BoxAssign(kind, @, v),
                  ![s].installed = v,
                  ![s].written = NoWrite,
                  ![s].retired = @ \cup {BoxReplaced(kind, slot[s].box).dtor}]
    /\ BoxFrame

\* operator=(const Self&), box.hpp:99, 179, 274-278: drop(), then the
\* other Box's value is copied.
BoxCopyAssign(s, src) ==
    /\ slot[s].live /\ slot[src].live /\ s # src
    /\ slot' = [slot EXCEPT
                  ![s].box = BoxAssign(kind, @, slot[src].box.value),
                  ![s].installed = slot[src].installed,
                  ![s].written = NoWrite,
                  ![s].retired = @ \cup {BoxReplaced(kind, slot[s].box).dtor}]
    /\ BoxFrame

\* drop(), box.hpp:84-85, 164-165, 256-260.
BoxDropCall(s) ==
    /\ slot[s].live
    /\ slot' = [slot EXCEPT ![s].box = BoxDrop(kind, @)]
    /\ BoxFrame

\* ~Box(), box.hpp:82, 162, 252-254: the last content is gone.
BoxDestroy(s) ==
    /\ slot[s].live
    /\ slot' = [slot EXCEPT
                  ![s].live = FALSE,
                  ![s].box = BoxDestructor(kind, @),
                  ![s].retired = @ \cup {BoxDestructor(kind, slot[s].box).dtor}]
    /\ BoxFrame

BoxNext ==
    \/ \E s \in Slots, v \in Values(kind) : BoxConstruct(s, v)
    \/ \E s \in Slots, v \in Values(kind) : BoxAssignValue(s, v)
    \/ \E s, src \in Slots : BoxCopyAssign(s, src)
    \/ \E s \in Slots : BoxDropCall(s)
    \/ \E s \in Slots : BoxDestroy(s)

SpecBox == OptInit /\ [][BoxNext]_vars

(***************************************************************************)
(* A Box at a time, and the objects a Box<T*> or a Box<T&> refers to,      *)
(* which the program changes directly too.                                 *)
(***************************************************************************)
BoxRefFrame == UNCHANGED <<rcVars, pc, optVars, build, origin>>

\* x = c, for the object x at address a that a T* or a T& can refer to:
\* no Box is involved.
ObjectWrite(a, c) ==
    /\ kind # "value"
    /\ mem' = [mem EXCEPT ![a] = c]
    /\ slot' = [s \in Slots |->
                  IF slot[s].live /\ slot[s].box.value = a
                  THEN [slot[s] EXCEPT !.written = OutsideWrite]
                  ELSE slot[s]]
    /\ BoxRefFrame

\* *b = c (**b = c for a T*), made where the stored address refers to an
\* object.
BoxWrite(s, c) ==
    /\ kind # "value"
    /\ slot[s].live
    /\ slot[s].box.value \in Addrs
    /\ mem' = BoxStore(kind, slot[s].box, mem, c)
    /\ slot' = [q \in Slots |->
                  IF q = s THEN [slot[q] EXCEPT !.written = c]
                  ELSE IF slot[q].live /\ slot[q].box.value = slot[s].box.value
                  THEN [slot[q] EXCEPT !.written = OutsideWrite]
                  ELSE slot[q]]
    /\ BoxRefFrame

BoxRefNext ==
    \/ \E s \in Boxes, v \in Values(kind) : BoxConstruct(s, v)
    \/ \E s \in Boxes, v \in Values(kind) : BoxAssignValue(s, v)
    \/ \E s \in Boxes : BoxDropCall(s)
    \/ \E s \in Boxes : BoxDestroy(s)
    \/ \E a \in Addrs, c \in Cells : ObjectWrite(a, c)
    \/ \E s \in Boxes, c \in Cells : BoxWrite(s, c)

SpecBoxRef == OptInit /\ [][BoxRefNext]_vars

(***************************************************************************)
(* Properties of BasicRc.                                                  *)
(***************************************************************************)
\* h is dropped or destroyed in this step.
Dropping(h) == Drop(h) \/ Destroy(h)

\* C1: when the last handle attached to a control block is dropped or
\* destroyed, the pointee has then been released exactly once and the
\* control block has been released exactly once.
C1_LastDropReleasesOnce ==
    [][\A h \in Handles :
          LET b == inner[h] IN
          (Dropping(h) /\ b # Null /\ Attached(b) = {h}) =>
              /\ blockFrees'[b] = 1
              /\ value[b] # Null => dtorRuns'[value[b]] = 1]_vars

\* C2: on a handle constructed from an owned pointer, after n
\* copy-constructions and no drops every one of the n + 1 handles reports
\* get_count() = n + 1, and each later drop lowers what the remaining
\* handles report by one, so that the one handle left after n drops
\* reports 1.
C2_CountIsCopiesPlusOne ==
    \A b \in Blocks :
        (blockState[b] = "live" /\ hist[b].clean) =>
            /\ Cardinality(Attached(b)) = hist[b].copies + 1 - hist[b].drops
            /\ \A h \in Attached(b) :
                  get_count(h) = hist[b].copies + 1 - hist[b].drops
            /\ (hist[b].drops = hist[b].copies) =>
                  \A h \in Attached(b) : get_count(h) = 1

\* C2's case: a block that was copied from and then dropped down to one handle.
C2_Witness ==
    \E b \in Blocks :
        /\ blockState[b] = "live" /\ hist[b].clean
        /\ hist[b].copies >= 1
        /\ hist[b].drops = hist[b].copies
        /\ \E h \in Attached(b) : get_count(h) = 1

\* C3: dropping a handle that is not the last one attached to its control
\* block does not destroy the pointee: it is alive while another handle is
\* attached.
C3_NonLastDropKeepsPointee ==
    [][\A h \in Handles :
          LET b == inner[h] IN
          (/\ Dropping(h)
           /\ b # Null
           /\ blockState[b] = "live"
           /\ Attached(b) # {h}) =>
              /\ blockState'[b] = "live"
              /\ value[b] # Null => ptState'[value[b]] = "live"]_vars

\* C4: after a move-construction or a move-assignment the moved-from
\* handle has a null control-block pointer, and get_count() on it is 0.
C4_MovedFromIsNull ==
    [][\A h, src \in Handles :
          (h # src /\ (MoveConstruct(h, src) \/ MoveAssign(h, src))) =>
              /\ inner'[src] = Null
              /\ get_count(src)' = 0]_vars

\* C5: copy-assigning to a handle attached to a different control block
\* releases the previous attachment: the old block's count is one lower
\* afterwards, or the old block is freed.
C5_CopyAssignReleasesOld ==
    [][\A h, src \in Handles :
          LET b == inner[h] IN
          (/\ CopyAssign(h, src)
           /\ b # Null
           /\ blockState[b] = "live"
           /\ inner[src] # Null
           /\ inner[src] # b) =>
              \/ blockState'[b] = "freed"
              \/ count'[b] = count[b] - 1]_vars

\* Every thread has returned from drop().
AllDropped == \A h \in Handles : pc[h] = "done"

\* No count is one that only a decrement below zero produces.
CountNeverWraps == \A b \in Blocks : count[b] <= MaxCount

\* C6: for Arc, under every interleaving of concurrent drop() calls on
\* handles that alias one control block, exactly one drop sees itself as
\* the last owner, so that once all have returned the pointee and the
\* block have been released exactly once; and the count never wraps below
\* zero.
C6_ArcReleasesExactlyOnce ==
    /\ CountNeverWraps
    /\ (Running /\ AllDropped) =>
          \A b \in Blocks :
              blockState[b] # "unused" =>
                  /\ blockFrees[b] = 1
                  /\ value[b] # Null => dtorRuns[value[b]] = 1

\* C15: whatever state a live handle is dropped in, drop() leaves it null,
\* with get_count() 0 and has_value() false, and a second drop() on it
\* changes nothing: no handle, no control block, no pointee.
C15_DropIsIdempotent ==
    \A h \in Handles :
        (Running /\ hLive[h]) =>
            \A c \in ReadCount(Cur, inner[h]) :
                LET t == DropOp(Cur, h, c) IN
                /\ t.inner[h] = Null
                /\ get_count_in(t, h) = 0
                /\ ~has_value_in(t, h)
                /\ \A c2 \in ReadCount(t, t.inner[h]) : DropOp(t, h, c2) = t

\* C15's case: a live handle is null after the only handle of a block
\* was dropped.
C15_Witness ==
    \E h \in Handles, b \in Blocks :
        /\ hLive[h] /\ inner[h] = Null
        /\ hist[b].clean /\ hist[b].copies = 0 /\ hist[b].drops = 1
        /\ Attached(b) = {}

\* C16: whatever state a live handle is reset in, reset(p) leaves it
\* attached to a block whose value is p and whose count is 1, so
\* get_count() is 1, and does to every other block, the one the handle
\* was attached to included, and to the pointees what drop() does.
C16_ResetAttachesWithCountOne ==
    \A h \in Handles :
        (Running /\ hLive[h] /\ UnusedBlocks(Cur) # {}) =>
            \A p \in {Null, NewBlock(Cur)}, c \in ReadCount(Cur, inner[h]) :
                LET s0 == ConstructValue(Cur, p)
                    t == ResetOp(s0, h, p, NewBlock(Cur), c)
                    d == DropOp(s0, h, c)
                    nb == t.inner[h]
                IN /\ nb # Null
                   /\ get_count_in(t, h) = 1
                   /\ t.value[nb] = p
                   /\ t.ptState = d.ptState
                   /\ t.dtorRuns = d.dtorRuns
                   /\ \A b \in Blocks \ {nb} :
                         /\ t.count[b] = d.count[b]
                         /\ t.blockState[b] = d.blockState[b]
                         /\ t.blockFrees[b] = d.blockFrees[b]

\* C16's case: a handle that was attached to a block is, after reset(p)
\* with a pointee, the only handle of a second block of count 1.
C16_Witness ==
    \E h \in Handles, nb \in Blocks, ob \in Blocks :
        /\ ob # nb
        /\ hLive[h] /\ inner[h] = nb /\ Attached(nb) = {h}
        /\ blockState[nb] = "live" /\ ~hist[nb].clean
        /\ value[nb] = nb /\ get_count(h) = 1
        /\ blockState[ob] # "unused" /\ ~hist[ob].clean /\ Attached(ob) = {}

\* C17: whatever state a handle is moved in, move construction and move
\* assignment attach the destination to the block of the source and
\* change the count of no block.
C17_MoveKeepsCount ==
    \A h, src \in Handles :
        (Running /\ hLive[src]) =>
            LET t == IF hLive[h] THEN MoveAssignOp(Cur, h, src)
                     ELSE MoveConstructOp(Cur, h, src)
            IN /\ t.hLive[h]
               /\ t.inner[h] = inner[src]
               /\ t.count = count

\* C17's case: two handles are attached to a block that counts one owner.
C17_Witness ==
    \E b \in Blocks :
        /\ blockState[b] = "live"
        /\ Cardinality(Attached(b)) = 2
        /\ count[b] = 1

\* h has no control block, or one that is allocated.
Sound(h) == inner[h] = Null \/ blockState[inner[h]] = "live"

\* C24: for a live handle that does not dangle, h == nullptr is
\* !has_value() and h != nullptr is has_value(), true exactly when the
\* handle has a control block whose value is not null: whatever the count
\* is and whichever pointee is held, and false with get_count() 1 for a
\* handle constructed from a null pointer.
C24_NullComparesPresence ==
    \A h \in Handles :
        (Running /\ hLive[h] /\ Sound(h)) =>
            LET present == inner[h] # Null /\ value[inner[h]] # Null IN
            /\ has_value_in(Cur, h) = present
            /\ eq_nullptr(Cur, h) = ~present
            /\ ne_nullptr(Cur, h) = present
            /\ (/\ inner[h] # Null
                /\ hist[inner[h]] = CleanHist
                /\ value[inner[h]] = Null) =>
                   eq_nullptr(Cur, h) /\ get_count_in(Cur, h) = 1

\* C24's case: a handle constructed from a null pointer is attached to a
\* control block of count 1 and compares equal to nullptr.
C24_Witness ==
    \E h \in Handles :
        /\ hLive[h] /\ inner[h] # Null
        /\ blockState[inner[h]] = "live"
        /\ hist[inner[h]] = CleanHist
        /\ value[inner[h]] = Null
        /\ get_count_in(Cur, h) = 1
        /\ eq_nullptr(Cur, h) /\ ~ne_nullptr(Cur, h)

\* C25: no operation reads or writes a control block or a pointee that
\* has been released, and nothing is released twice.
C25_NoUseAfterRelease ==
    /\ fault \cap {"use_after_free", "double_free"} = {}
    /\ \A b \in Blocks : blockFrees[b] <= 1
    /\ \A p \in Pointees : dtorRuns[p] <= 1

\* C28: a handle copy-constructed from a handle with no control block has
\* no control block, get_count() 0 and has_value() false, and the
\* construction dereferences no control-block pointer.
C28_CopyOfNullIsNull ==
    \A src \in Handles, h \in Handles :
        (Running /\ hLive[src] /\ inner[src] = Null /\ ~hLive[h]) =>
            LET t == CopyConstructOp(Cur, h, src) IN
            /\ t.inner[h] = Null
            /\ get_count_in(t, h) = 0
            /\ ~has_value_in(t, h)
            /\ t.fault = {}

\* C29: reset(p) on a handle that shares its allocated control block with
\* another live handle attaches the handle to a block newly allocated,
\* and leaves the shared block allocated, with the value it had and a
\* count one lower.
C29_ResetLeavesSharedBlock ==
    \A h \in Handles :
        LET b == inner[h] IN
        (/\ Running /\ hLive[h] /\ b # Null
         /\ blockState[b] = "live"
         /\ Attached(b) # {h}
         /\ UnusedBlocks(Cur) # {}) =>
            \A p \in {Null, NewBlock(Cur)} :
                LET nb == NewBlock(Cur)
                    t == ResetOp(ConstructValue(Cur, p), h, p, nb, count[b])
                IN /\ t.inner[h] = nb
                   /\ t.blockState[b] = "live"
                   /\ t.value[b] = value[b]
                   /\ t.count[b] = count[b] - 1

(***************************************************************************)
(* Properties of Option.                                                   *)
(***************************************************************************)
\* C7: make_value(v) is present and unwraps to v, for T a value, a pointer
\* or a reference; make_empty() is not present.
C7_MakeValuePresent ==
    /\ olast.op = "make_value" =>
          /\ opt_has_value(opt[olast.dst])
          /\ borrow_value(kind, opt[olast.dst]) = olast.arg
    /\ olast.op = "make_empty" => ~opt_has_value(opt[olast.dst])

\* C7's case: make_value has made an Option of a value other than T().
C7_Witness ==
    /\ olast.op = "make_value"
    /\ olast.arg = MaxValue
    /\ opt[olast.dst].live

\* C8: a copy-constructed Option has the has_value() of its source, and
\* the source's value when the source is present.
C8_CopyConstructCopiesPresence ==
    olast.op = "copy_construct" =>
        /\ opt_has_value(opt[olast.dst]) = opt_has_value(olast.srcBefore)
        /\ opt_has_value(olast.srcBefore) =>
              borrow_value(kind, opt[olast.dst])
                  = borrow_value(kind, olast.srcBefore)

\* C9: after a = b, a.has_value() is b.has_value() whatever a and b were
\* before, and a holds b's value when b is present.
C9_CopyAssignCopiesPresence ==
    olast.op = "copy_assign" =>
        /\ opt_has_value(opt[olast.dst]) = opt_has_value(olast.srcBefore)
        /\ opt_has_value(olast.srcBefore) =>
              borrow_value(kind, opt[olast.dst])
                  = borrow_value(kind, olast.srcBefore)

\* C10: moving a present Option a into b, by construction or by
\* assignment, leaves b present with the value a held.
C10_MoveTransfersValue ==
    (/\ olast.op \in {"move_construct", "move_assign"}
     /\ opt_has_value(olast.srcBefore)) =>
        /\ opt_has_value(opt[olast.dst])
        /\ borrow_value(kind, opt[olast.dst])
              = borrow_value(kind, olast.srcBefore)

\* C11: after a present Option was moved from, by move construction or by
\* move assignment into another Option, the source's has_value() is false.
C11_MovedFromIsEmpty ==
    (/\ olast.op \in {"move_construct", "move_assign"}
     /\ olast.src # olast.dst
     /\ opt_has_value(olast.srcBefore)) =>
        ~opt_has_value(opt[olast.src])

\* C12: reset() and drop() leave has_value() false, and when T is a value
\* and the Option was present, ~T has run on the value the Option held.
C12_ResetAndDropDestroy ==
    olast.op \in {"reset", "drop"} =>
        /\ ~opt_has_value(opt[olast.dst])
        /\ (kind = "value" /\ opt_has_value(olast.dstBefore)) =>
              opt[olast.dst].inner.dtor > olast.dstBefore.inner.dtor

Accessors == {"borrow_value", "get_value", "operator*"}

\* C14: in a BUILD_DEBUG build borrow_value(), get_value() and operator*
\* raise exactly when the Option is empty, and an accessor that raised has
\* left the Option as it was.
C14_DebugRaisesOnEmpty ==
    (build = "debug" /\ olast.op \in Accessors) =>
        /\ olast.raised = is_empty(olast.dstBefore)
        /\ olast.raised => Before(opt[olast.dst]) = olast.dstBefore

\* C14's case: get_value() was called on an empty Option of a debug build.
C14_Witness ==
    /\ build = "debug"
    /\ olast.op = "get_value"
    /\ is_empty(olast.dstBefore)
    /\ olast.raised

\* q is a copy of o or o a copy of q, made while the original was present.
CopyPair(o, q) == o # q /\ (origin[q] = o \/ origin[o] = q)

\* C18: for a value T, whatever state an Option is written through in,
\* the write changes the value of no other Option, a copy of it or the
\* original it was copied from included.
C18_ValueCopyIsIndependent ==
    kind = "value" =>
        \A o \in Opts, v \in Written(kind) :
            (opt[o].live /\ ~NoValue(build, opt[o])) =>
                LET os == Stored(opt, o, v) IN
                /\ Deref(kind, os[o], mem) = v
                /\ \A q \in Opts \ {o} :
                      Deref(kind, os[q], mem) = Deref(kind, opt[q], mem)

\* C18's case: a value was written through one Option of a copy pair, and
\* the other still holds the value both held before.
C18_Witness ==
    /\ kind = "value"
    /\ olast.op = "write" /\ ~olast.raised
    /\ \E q \in Opts :
          /\ CopyPair(olast.dst, q)
          /\ Deref(kind, opt[q], mem) = olast.dstBefore.inner.value
          /\ Deref(kind, opt[olast.dst], mem) = olast.arg
          /\ olast.arg # olast.dstBefore.inner.value

C26_AssignReplacesContent ==
    (/\ olast.op \in {"copy_assign", "move_assign"}
     /\ olast.src # olast.dst
     /\ opt_has_value(olast.srcBefore)
     /\ opt_has_value(olast.dstBefore)) =>
        /\ opt_has_value(opt[olast.dst])
        /\ borrow_value(kind, opt[olast.dst])
              = borrow_value(kind, olast.srcBefore)
        /\ kind = "value" =>
              OptionReplaced(kind, olast.dstBefore).dtor
                  = olast.dstBefore.inner.dtor + 1

\* C27: for a value T, when an Option has been destroyed ~T has run
\* exactly once on the object it stored, a drop() before the destruction
\* counted in.
C27_StoredObjectDestroyedOnce ==
    (kind = "value" /\ olast.op = "destroy") =>
        opt[olast.dst].inner.dtor = 1

(***************************************************************************)
(* Properties of Box.                                                      *)
(***************************************************************************)
\* C20: for a value Box, on no content has ~T run more than once while the
\* Box holds it, and on every content the Box held and holds no more, be
\* it replaced by an assignment or gone with the Box, ~T has run exactly
\* once.
C20_ContentDestroyedOnce ==
    kind = "value" =>
        \A s \in Slots :
            /\ slot[s].live => slot[s].box.dtor <= 1
            /\ slot[s].retired \subseteq {1}

C22_ReferenceAliases ==
    kind = "reference" =>
        \A s \in Slots :
            slot[s].live =>
                LET x == slot[s].installed
                    b == slot[s].box
                IN /\ BoxContent(kind, b, mem) = mem[x]
                   /\ \A a \in Addrs, c \in Cells :
                         LET m == [mem EXCEPT ![a] = c] IN
                         BoxContent(kind, b, m) = m[x]
                   /\ \A c \in Cells :
                         LET m == BoxStore(kind, b, mem, c) IN
                         /\ m[x] = c
                         /\ BoxContent(kind, b, m) = c
                         /\ \A a \in Addrs \ {x} : m[a] = mem[a]

\* C22's case: x was changed from outside after the Box<T&> was bound to
\* it, and *b reads the new content.
C22_Witness ==
    \E s \in Slots :
        /\ kind = "reference"
        /\ slot[s].live
        /\ slot[s].written = OutsideWrite
        /\ mem[slot[s].installed] = MaxCell
        /\ BoxContent(kind, slot[s].box, mem) = MaxCell

\* A step in which the Box s releases what it holds: drop(), an
\* assignment, or its destruction.
Releasing(s) ==
    \/ BoxDropCall(s)
    \/ \E v \in Values(kind) : BoxAssignValue(s, v)
    \/ BoxDestroy(s)

\* C23: drop() on a Box<T> of a value T runs ~T on the content; a Box<T*>
\* or a Box<T&> that releases what it holds, by drop(), by an assignment
\* or by its destruction, has run no destructor on it and leaves every
\* object referred to as it was.
C23_OnlyValueRunsDestructor ==
    [][\A s \in Boxes :
          /\ (/\ kind = "value"
              /\ BoxDropCall(s)
              /\ slot[s].box.dtor < MaxDtor) =>
                 slot'[s].box.dtor = slot[s].box.dtor + 1
          /\ (kind # "value" /\ Releasing(s)) =>
                 /\ slot'[s].box.dtor = 0
                 /\ slot'[s].retired \subseteq {0}
                 /\ mem' = mem]_vars

\* C23's case: a Box<T*> that held the address of an object the program
\* had written to was destroyed, and the object holds what was written.
C23_Witness ==
    \E s \in Boxes :
        /\ kind = "pointer"
        /\ ~slot[s].live
        /\ slot[s].retired = {0}
        /\ slot[s].installed \in Addrs
        /\ slot[s].box.value = slot[s].installed
        /\ mem[slot[s].installed] = MaxCell

====
